---- MODULE Spec2Model ----
(***************************************************************************)
(* Model of src/platform_impl/windows/ime.rs: the ImeContext wrapper over  *)
(* the Win32 IMM query interface.                                          *)
(*                                                                         *)
(* Values: an Option is a sequence of length at most one (None = << >>,    *)
(* Some(v) = <<v>>); a Vec<u8> is a sequence of bytes 0..255; a String is  *)
(* the sequence of its Unicode scalar values (what .chars() yields), its   *)
(* byte length being the sum of len_utf8 over them.                        *)
(***************************************************************************)
EXTENDS Integers, Sequences, FiniteSets, TLC

\* ------------------------------------------------------------------ bounds
MaxLen == 3        \* UTF-16 units in a composition string
MaxAttr == 3       \* bytes in the attribute sequence
FetchLen == 2      \* units in a composition string whose fetch may fail
MaxCand == 2       \* offset slots in a candidate buffer
MaxArea == 3       \* UTF-16 units in the string area of a candidate buffer
Slack == 4         \* readable bytes that follow the candidate allocation
MaxCoord == 1      \* logical coordinates of a candidate-window spot
MaxScale == 2      \* scale factors

\* ------------------------------------------------------- platform constants
GCS_COMPSTR == 8
GCS_COMPATTR == 16
GCS_CURSORPOS == 128
GCS_RESULTSTR == 2048
ATTR_TARGET_CONVERTED == 1
ATTR_TARGET_NOTCONVERTED == 3
CFS_EXCLUDE == 128
IACE_CHILDREN == 1
IACE_DEFAULT == 16
SM_IMMENABLED == 82
IMM_ERROR_NODATA == -1
IMM_ERROR_GENERAL == -2
\* CANDIDATELIST is six u32 fields followed by the dwOffset array.
OFFSET_OF_dwCount == 8
OFFSET_OF_dwOffset == 24

None == << >>
Some(v) == <<v>>
IsSome(o) == Len(o) = 1
Unwrap(o) == o[1]

Min(a, b) == IF a < b THEN a ELSE b

\* ------------------------------------------------------------ UTF-16 / UTF-8
IsHigh(u) == u >= 55296 /\ u <= 56319      \* 0xD800..0xDBFF
IsLow(u) == u >= 56320 /\ u <= 57343       \* 0xDC00..0xDFFF
IsSurrogate(u) == IsHigh(u) \/ IsLow(u)
Combine(h, l) == 65536 + (h - 55296) * 1024 + (l - 56320)

\* char::len_utf8
len_utf8(c) == IF c < 128 THEN 1 ELSE IF c < 2048 THEN 2 ELSE IF c < 65536 THEN 3 ELSE 4

\* str::len: the byte length of a String.
RECURSIVE str_len(_)
str_len(s) == IF s = << >> THEN 0 ELSE len_utf8(Head(s)) + str_len(Tail(s))

\* OsString::from_wide(units).into_string().ok(): strict decoding, None on
\* any unpaired surrogate.
RECURSIVE from_wide_into_string(_)
from_wide_into_string(w) ==
  IF w = << >> THEN Some(<< >>)
  ELSE IF IsHigh(w[1]) /\ Len(w) >= 2 /\ IsLow(w[2])
       THEN LET rest == from_wide_into_string(SubSeq(w, 3, Len(w)))
            IN IF IsSome(rest) THEN Some(<<Combine(w[1], w[2])>> \o Unwrap(rest)) ELSE None
  ELSE IF IsSurrogate(w[1]) THEN None
  ELSE LET rest == from_wide_into_string(Tail(w))
       IN IF IsSome(rest) THEN Some(<<w[1]>> \o Unwrap(rest)) ELSE None

\* String::from_utf16_lossy: unpaired surrogates become U+FFFD.
RECURSIVE from_utf16_lossy(_)
from_utf16_lossy(w) ==
  IF w = << >> THEN << >>
  ELSE IF IsHigh(w[1]) /\ Len(w) >= 2 /\ IsLow(w[2])
       THEN <<Combine(w[1], w[2])>> \o from_utf16_lossy(SubSeq(w, 3, Len(w)))
  ELSE IF IsSurrogate(w[1]) THEN <<65533>> \o from_utf16_lossy(Tail(w))
  ELSE <<w[1]>> \o from_utf16_lossy(Tail(w))

\* The platform stores UTF-16 text little-endian.
RECURSIVE WideBytes(_)
WideBytes(w) ==
  IF w = << >> THEN << >> ELSE <<Head(w) % 256, Head(w) \div 256>> \o WideBytes(Tail(w))

\* <[u8]>::align_to::<u16> on a Vec allocation: whole units in the middle,
\* an odd trailing byte in the suffix, empty prefix.
align_to_u16(data) ==
  [prefix |-> << >>,
   shorts |-> [i \in 1..(Len(data) \div 2) |-> data[2 * i - 1] + 256 * data[2 * i]],
   suffix |-> SubSeq(data, 2 * (Len(data) \div 2) + 1, Len(data))]

\* ------------------------------------------------------------------- state
VARIABLES
  ctx,        \* "none", "live", "dropped" or "aborted": the ImeContext value
  hwnd,       \* ImeContext.hwnd
  himc,       \* ImeContext.himc
  released,   \* the ImmReleaseContext calls made so far, as <<hwnd, himc>>
  imcOf,      \* platform: the input context ImmGetContext gives for a window
  immEnabled, \* platform: GetSystemMetrics(SM_IMMENABLED)
  comp,       \* platform: per GCS mode [probe, fill, data] of the two-phase query
  cursorPos,  \* platform: ImmGetCompositionStringW(GCS_CURSORPOS)
  cand,       \* platform: [size, ret, buf, after] of ImmGetCandidateListW
  op,         \* the last operation run, with its arguments
  ret,        \* what it returned
  calls,      \* the platform calls it made, in order
  reads       \* the byte offsets from buf.as_ptr() it read through raw pointers

vars == <<ctx, hwnd, himc, released, imcOf, immEnabled, comp, cursorPos, cand, op, ret, calls, reads>>
platform == <<imcOf, immEnabled, comp, cursorPos, cand>>

Modes == {GCS_COMPSTR, GCS_COMPATTR, GCS_RESULTSTR}
\* ------------------------------------------------- platform query interface
\* ImmGetCompositionStringW(himc, mode, null, 0): the size probe.
ImmGetCompositionStringW_probe(gcs_mode) == comp[gcs_mode].probe
\* ImmGetCompositionStringW(himc, mode, buf, len): the fill; it returns an
\* error or the number of bytes it copied into buf.
ImmGetCompositionStringW_fill(gcs_mode, len) == comp[gcs_mode].fill
\* The bytes of buf once the fill has copied n bytes and set_len(n) has run.
FilledBuf(gcs_mode, n) == SubSeq(comp[gcs_mode].data, 1, n)
CompCall(gcs_mode, len) == <<"ImmGetCompositionStringW", himc, gcs_mode, len>>

\* --------------------------------------------------------- private helpers
\* get_composition_data with set_len(probe size): the tail of the buffer
\* behind the bytes copied is whatever the allocation held.
get_composition_data_LenFromProbe(gcs_mode) ==
  LET size == ImmGetCompositionStringW_probe(gcs_mode)
      probed == <<CompCall(gcs_mode, 0)>>
  IN IF size = 0 THEN [val |-> Some(<< >>), calls |-> probed]
     ELSE IF size < 0 THEN [val |-> None, calls |-> probed]
     ELSE LET size2 == ImmGetCompositionStringW_fill(gcs_mode, size)
              filled == probed \o <<CompCall(gcs_mode, size)>>
          IN IF size2 < 0 THEN [val |-> None, calls |-> filled]
             ELSE [val |-> Some(FilledBuf(gcs_mode, size2) \o [i \in 1..(size - size2) |-> 0]),
                   calls |-> filled]

\* get_composition_data: [val |-> Option<Vec<u8>>, calls |-> platform calls]
get_composition_data(gcs_mode) ==
  LET size == ImmGetCompositionStringW_probe(gcs_mode)
      probed == <<CompCall(gcs_mode, 0)>>
  IN IF size = 0 THEN [val |-> Some(<< >>), calls |-> probed]
     ELSE IF size < 0 THEN [val |-> None, calls |-> probed]
     ELSE LET size2 == ImmGetCompositionStringW_fill(gcs_mode, size)
              filled == probed \o <<CompCall(gcs_mode, size)>>
          IN IF size2 < 0 THEN [val |-> None, calls |-> filled]
             ELSE [val |-> Some(FilledBuf(gcs_mode, size2)), calls |-> filled]

\* get_composition_string that reports an empty buffer as absence.
get_composition_string_EmptyIsNone(gcs_mode) ==
  LET data == get_composition_data(gcs_mode)
  IN IF ~IsSome(data.val) \/ data.val = Some(<< >>) THEN [val |-> None, calls |-> data.calls]
     ELSE LET a == align_to_u16(Unwrap(data.val))
          IN IF a.prefix = << >> /\ a.suffix = << >>
             THEN [val |-> from_wide_into_string(a.shorts), calls |-> data.calls]
             ELSE [val |-> None, calls |-> data.calls]

\* get_composition_string: [val |-> Option<String>, calls |-> platform calls]
get_composition_string(gcs_mode) ==
  LET data == get_composition_data(gcs_mode)
  IN IF ~IsSome(data.val) THEN [val |-> None, calls |-> data.calls]
     ELSE LET a == align_to_u16(Unwrap(data.val))
          IN IF a.prefix = << >> /\ a.suffix = << >>
             THEN [val |-> from_wide_into_string(a.shorts), calls |-> data.calls]
             ELSE [val |-> None, calls |-> data.calls]

\* text.chars().take(n).map(|c| c.len_utf8()).sum()
RECURSIVE take_len_utf8_sum(_, _)
take_len_utf8_sum(text, n) ==
  IF n = 0 \/ text = << >> THEN 0
  ELSE len_utf8(Head(text)) + take_len_utf8_sum(Tail(text), n - 1)

\* get_composition_cursor that hands the UTF-16 cursor on unconverted.
get_composition_cursor_RawUnits(text) ==
  [val |-> IF cursorPos >= 0 THEN Some(cursorPos) ELSE None,
   calls |-> <<CompCall(GCS_CURSORPOS, 0)>>]

\* get_composition_cursor: [val |-> Option<usize>, calls |-> platform calls]
get_composition_cursor(text) ==
  LET cursor == cursorPos
  IN [val |-> IF cursor >= 0 THEN Some(take_len_utf8_sum(text, cursor)) ELSE None,
      calls |-> <<CompCall(GCS_CURSORPOS, 0)>>]

char_is_targetted(attr) == attr = ATTR_TARGET_CONVERTED \/ attr = ATTR_TARGET_NOTCONVERTED

\* The for loop over attrs.into_iter().zip(text.chars()), from its i-th
\* iteration on: [first, last] when the shorter of the two is exhausted.
RECURSIVE zip_loop(_, _, _, _, _, _)
zip_loop(attrs, text, i, first, last, boundary_before_char) ==
  IF i > Len(attrs) \/ i > Len(text) THEN [first |-> first, last |-> last]
  ELSE LET t == char_is_targetted(attrs[i])
           first2 == IF first = None /\ t THEN Some(boundary_before_char) ELSE first
           last2 == IF ~(first = None /\ t) /\ first # None /\ last = None /\ ~t
                    THEN Some(boundary_before_char) ELSE last
       IN zip_loop(attrs, text, i + 1, first2, last2,
                   boundary_before_char + len_utf8(text[i]))

\* --------------------------------------------------------------- operations
\* get_composing_text_and_cursor with `?` on the attribute fetch.
get_composing_text_and_cursor_AttrsRequired ==
  LET str == get_composition_string(GCS_COMPSTR)
      fetched == get_composition_data(GCS_COMPATTR)
  IN IF ~IsSome(str.val) THEN [val |-> None, calls |-> str.calls]
     ELSE IF ~IsSome(fetched.val) THEN [val |-> None, calls |-> str.calls \o fetched.calls]
     ELSE LET text == Unwrap(str.val)
              w == zip_loop(Unwrap(fetched.val), text, 1, None, None, 0)
              cur == get_composition_cursor(text)
          IN IF w.first # None /\ w.last = None
             THEN [val |-> Some(<<text, w.first, Some(str_len(text))>>),
                   calls |-> str.calls \o fetched.calls]
             ELSE IF w.first = None
             THEN [val |-> Some(<<text, cur.val, cur.val>>),
                   calls |-> str.calls \o fetched.calls \o cur.calls]
             ELSE [val |-> Some(<<text, w.first, w.last>>),
                   calls |-> str.calls \o fetched.calls]

\* get_composing_text_and_cursor closing an open run at text.chars().count().
get_composing_text_and_cursor_CharCount ==
  LET str == get_composition_string(GCS_COMPSTR)
  IN IF ~IsSome(str.val) THEN [val |-> None, calls |-> str.calls]
     ELSE LET text == Unwrap(str.val)
              fetched == get_composition_data(GCS_COMPATTR)
              attrs == IF IsSome(fetched.val) THEN Unwrap(fetched.val) ELSE << >>
              w == zip_loop(attrs, text, 1, None, None, 0)
              cur == get_composition_cursor(text)
          IN IF w.first # None /\ w.last = None
             THEN [val |-> Some(<<text, w.first, Some(Len(text))>>),
                   calls |-> str.calls \o fetched.calls]
             ELSE IF w.first = None
             THEN [val |-> Some(<<text, cur.val, cur.val>>),
                   calls |-> str.calls \o fetched.calls \o cur.calls]
             ELSE [val |-> Some(<<text, w.first, w.last>>),
                   calls |-> str.calls \o fetched.calls]

\* ImeContext::get_composing_text_and_cursor
get_composing_text_and_cursor ==
  LET str == get_composition_string(GCS_COMPSTR)
  IN IF ~IsSome(str.val) THEN [val |-> None, calls |-> str.calls]
     ELSE LET text == Unwrap(str.val)
              fetched == get_composition_data(GCS_COMPATTR)
              attrs == IF IsSome(fetched.val) THEN Unwrap(fetched.val) ELSE << >>
              w == zip_loop(attrs, text, 1, None, None, 0)
              cur == get_composition_cursor(text)
          IN IF w.first # None /\ w.last = None
             THEN [val |-> Some(<<text, w.first, Some(str_len(text))>>),
                   calls |-> str.calls \o fetched.calls]
             ELSE IF w.first = None
             THEN [val |-> Some(<<text, cur.val, cur.val>>),
                   calls |-> str.calls \o fetched.calls \o cur.calls]
             ELSE [val |-> Some(<<text, w.first, w.last>>),
                   calls |-> str.calls \o fetched.calls]

\* ImeContext::get_composed_text
get_composed_text == get_composition_string(GCS_RESULTSTR)

GetComposingTextAndCursor ==
  /\ ctx = "live"
  /\ op' = <<"get_composing_text_and_cursor">>
  /\ ret' = get_composing_text_and_cursor.val
  /\ calls' = get_composing_text_and_cursor.calls
  /\ reads' = {}
  /\ UNCHANGED <<ctx, hwnd, himc, released, platform>>

GetComposedText ==
  /\ ctx = "live"
  /\ op' = <<"get_composed_text">>
  /\ ret' = get_composed_text.val
  /\ calls' = get_composed_text.calls
  /\ reads' = {}
  /\ UNCHANGED <<ctx, hwnd, himc, released, platform>>

\* The private two-phase helper applied on its own to one query mode.
GetCompositionData(gcs_mode) ==
  /\ ctx = "live"
  /\ op' = <<"get_composition_data", gcs_mode>>
  /\ ret' = get_composition_data(gcs_mode).val
  /\ calls' = get_composition_data(gcs_mode).calls
  /\ reads' = {}
  /\ UNCHANGED <<ctx, hwnd, himc, released, platform>>
\* ---------------------------------------------------- candidate list memory
\* Offsets are relative to buf.as_ptr(). The allocation holds cand.size
\* bytes; the Slack bytes behind it are mapped memory of unrelated content
\* (cand.after); every other address is unmapped and a read of it faults.
Mapped(a) == a >= 0 /\ a < cand.size + Slack
ByteAt(a) == IF a < cand.size THEN cand.buf[a + 1] ELSE cand.after[a - cand.size + 1]
ReadU16(a) == ByteAt(a) + 256 * ByteAt(a + 1)
\* A u32 of 2^30 or more is far beyond the mapped range whether it is used
\* as a count or as an offset; all of them are represented by 2^30, which
\* keeps the arithmetic within 32-bit signed integers.
ReadU32(a) ==
  IF ByteAt(a + 3) >= 64 THEN 1073741824
  ELSE ByteAt(a) + 256 * ByteAt(a + 1) + 65536 * ByteAt(a + 2) + 16777216 * ByteAt(a + 3)

\* (0..isize::MAX).position(|i| *p.offset(i) == 0): the index of the first
\* zero unit from p on, -1 when the scan reaches unmapped memory first.
RECURSIVE position_of_null(_, _)
position_of_null(p, i) ==
  IF ~Mapped(p + 2 * i + 1) THEN -1
  ELSE IF ReadU16(p + 2 * i) = 0 THEN i
  ELSE position_of_null(p, i + 1)

\* from_raw_parts that starts one unit late.
slice_from_raw_parts_OneLate(p, len) == [j \in 1..len |-> ReadU16(p + 2 * j)]

\* std::slice::from_raw_parts(p, len)
slice_from_raw_parts(p, len) == [j \in 1..len |-> ReadU16(p + 2 * (j - 1))]

\* The body of the for loop from iteration i on (0-based), list being the
\* strings pushed so far and rd the bytes read so far.
RECURSIVE candidate_loop(_, _, _, _)
candidate_loop(i, dwCount, list, rd) ==
  IF i >= dwCount THEN [val |-> Some(list), reads |-> rd, fault |-> FALSE]
  ELSE LET at == OFFSET_OF_dwOffset + 4 * i
       IN IF ~Mapped(at + 3) THEN [val |-> None, reads |-> rd \cup {at}, fault |-> TRUE]
          ELSE LET p == ReadU32(at)
                   len == position_of_null(p, 0)
                   rd2 == rd \cup (at..(at + 3))
               IN IF len < 0
                  THEN [val |-> None, reads |-> rd2 \cup {p}, fault |-> TRUE]
                  ELSE candidate_loop(i + 1, dwCount,
                                      Append(list, from_utf16_lossy(slice_from_raw_parts(p, len))),
                                      rd2 \cup (p..(p + 2 * len + 1)))

CandCall(len) == <<"ImmGetCandidateListW", himc, 0, len>>

\* ImeContext::get_candidate_list:
\* [val |-> Option<Vec<String>>, calls, reads, fault |-> the process died]
get_candidate_list ==
  LET size == cand.size
      probed == <<CandCall(0)>>
  IN IF size = 0 THEN [val |-> None, calls |-> probed, reads |-> {}, fault |-> FALSE]
     ELSE LET r == cand.ret
              filled == probed \o <<CandCall(size)>>
          IN IF r = 0 THEN [val |-> None, calls |-> filled, reads |-> {}, fault |-> FALSE]
             ELSE IF ~Mapped(OFFSET_OF_dwCount + 3)
             THEN [val |-> None, calls |-> filled, reads |-> {OFFSET_OF_dwCount}, fault |-> TRUE]
             ELSE LET l == candidate_loop(0, ReadU32(OFFSET_OF_dwCount), << >>,
                                          OFFSET_OF_dwCount..(OFFSET_OF_dwCount + 3))
                  IN [val |-> l.val, calls |-> filled, reads |-> l.reads, fault |-> l.fault]

GetCandidateList ==
  /\ ctx = "live"
  /\ op' = <<"get_candidate_list">>
  /\ ret' = get_candidate_list.val
  /\ calls' = get_candidate_list.calls
  /\ reads' = get_candidate_list.reads
  /\ ctx' = IF get_candidate_list.fault THEN "aborted" ELSE ctx
  /\ UNCHANGED <<hwnd, himc, released, platform>>
\* ------------------------------------------------------------------ setters
\* system_has_ime that takes IME support for granted.
system_has_ime_Always == TRUE

\* ImeContext::system_has_ime
system_has_ime == immEnabled # 0
MetricsCall == <<"GetSystemMetrics", SM_IMMENABLED>>

\* Position::to_physical::<i32>(scale_factor), then .into() a pair.
to_physical(spot, scale_factor) ==
  IF spot.kind = "Logical" THEN <<spot.x * scale_factor, spot.y * scale_factor>>
  ELSE <<spot.x, spot.y>>

\* ImeContext::set_ime_position: the platform calls it makes.
set_ime_position(spot, scale_factor) ==
  IF ~system_has_ime THEN <<MetricsCall>>
  ELSE LET candidate_form == [dwIndex |-> 0, dwStyle |-> CFS_EXCLUDE,
                              ptCurrentPos |-> to_physical(spot, scale_factor),
                              rcArea |-> <<0, 0, 0, 0>>]
       IN <<MetricsCall, <<"ImmSetCandidateWindow", himc, candidate_form>>>>

\* ImeContext::set_ime_allowed: the platform calls it makes.
set_ime_allowed(h, allowed) ==
  IF ~system_has_ime THEN <<MetricsCall>>
  ELSE IF allowed THEN <<MetricsCall, <<"ImmAssociateContextEx", h, 0, IACE_DEFAULT>>>>
  ELSE <<MetricsCall, <<"ImmAssociateContextEx", h, 0, IACE_CHILDREN>>>>

Hwnds == {1, 2}
Spots == [kind : {"Logical", "Physical"}, x : 0..MaxCoord, y : 0..MaxCoord]
Scales == 1..MaxScale

SetImePosition(spot, scale_factor) ==
  /\ ctx = "live"
  /\ op' = <<"set_ime_position", spot, scale_factor>>
  /\ ret' = None
  /\ calls' = set_ime_position(spot, scale_factor)
  /\ reads' = {}
  /\ UNCHANGED <<ctx, hwnd, himc, released, platform>>

\* An associated function: it needs no ImeContext, only a running process.
SetImeAllowed(h, allowed) ==
  /\ ctx # "aborted"
  /\ op' = <<"set_ime_allowed", h, allowed>>
  /\ ret' = None
  /\ calls' = set_ime_allowed(h, allowed)
  /\ reads' = {}
  /\ UNCHANGED <<ctx, hwnd, himc, released, platform>>

\* ---------------------------------------------------------------- lifetime
\* ImeContext::current
Current(h) ==
  /\ ctx = "none"
  /\ ctx' = "live"
  /\ hwnd' = h
  /\ himc' = imcOf[h]
  /\ op' = <<"current", h>>
  /\ ret' = None
  /\ calls' = <<<<"ImmGetContext", h>>>>
  /\ reads' = {}
  /\ UNCHANGED <<released, platform>>

\* Drop without the release (the handle leaks).
Drop_NoRelease ==
  /\ ctx = "live"
  /\ ctx' = "dropped"
  /\ op' = <<"drop">>
  /\ ret' = None
  /\ calls' = << >>
  /\ reads' = {}
  /\ UNCHANGED <<hwnd, himc, released, platform>>

\* impl Drop for ImeContext, run when the value goes out of scope.
Drop ==
  /\ ctx = "live"
  /\ ctx' = "dropped"
  /\ released' = Append(released, <<hwnd, himc>>)
  /\ op' = <<"drop">>
  /\ ret' = None
  /\ calls' = <<<<"ImmReleaseContext", hwnd, himc>>>>
  /\ reads' = {}
  /\ UNCHANGED <<hwnd, himc, platform>>
\* ------------------------------------------------------- platform states
SeqsUpTo(S, n) == UNION {[1..k -> S] : k \in 0..n}
Errs == {IMM_ERROR_NODATA, IMM_ERROR_GENERAL}

\* UTF-16 units the IME composes with: 'a', HIRAGANA A, and the two
\* surrogates of U+1F600.
Units == {97, 12354, 55357, 56832}
\* ATTR_INPUT, ATTR_TARGET_CONVERTED, ATTR_CONVERTED, ATTR_TARGET_NOTCONVERTED
AttrVals == 0..3

\* Well-formed UTF-16: every surrogate is half of a high-low pair.
WellFormed16(w) ==
  \A i \in 1..Len(w) :
    /\ IsHigh(w[i]) => (i < Len(w) /\ IsLow(w[i + 1]))
    /\ IsLow(w[i]) => (i > 1 /\ IsHigh(w[i - 1]))

\* A two-phase query that delivers all of d, and one whose probe fails.
Delivers(d) == [probe |-> Len(d), fill |-> Len(d), data |-> d]
Fails(e) == [probe |-> e, fill |-> e, data |-> << >>]
\* Every answer the query interface allows for data drawn from D: the fill
\* reports an error or the number of bytes copied, at most the len passed.
FetchOracles(D) ==
  {Fails(e) : e \in Errs} \cup
  UNION {{[probe |-> Len(d), fill |-> f, data |-> d] : f \in Errs \cup (0..Len(d))} : d \in D}

CompOf(str, attr, res) == (GCS_COMPSTR :> str) @@ (GCS_COMPATTR :> attr) @@ (GCS_RESULTSTR :> res)

\* ImmGetCandidateListW with no candidate list.
CandNone == [size |-> 0, ret |-> 0, buf |-> << >>,
             after |-> [i \in 1..Slack |-> IF i <= 2 THEN 65 ELSE 0]]

U32LE(n) == <<n % 256, (n \div 256) % 256, (n \div 65536) % 256, (n \div 16777216) % 256>>
RECURSIVE OffsetBytes(_)
OffsetBytes(offs) == IF offs = << >> THEN << >> ELSE U32LE(Head(offs)) \o OffsetBytes(Tail(offs))

\* A CANDIDATELIST image: dwSize, dwStyle, dwCount, dwSelection, dwPageStart,
\* dwPageSize, then the offset slots, then the string area.
Layout(dwCount, offs, area) ==
  U32LE(OFFSET_OF_dwOffset + 4 * Len(offs) + 2 * Len(area)) \o U32LE(1) \o U32LE(dwCount)
    \o U32LE(0) \o U32LE(0) \o U32LE(dwCount) \o OffsetBytes(offs) \o WideBytes(area)

CandOf(b, r) == [size |-> Len(b), ret |-> r, buf |-> b, after |-> CandNone.after]

\* NUL, CJK "one", a lone high surrogate.
CandUnits == {0, 19968, 55357}

\* ---------------------------------------------------------- specifications
Fresh ==
  /\ op = <<"none">> /\ ret = None /\ calls = << >> /\ reads = {} /\ released = << >>

Constructed ==
  /\ ctx = "live" /\ hwnd = 1 /\ himc = 7 /\ imcOf = [h \in Hwnds |-> 7] /\ immEnabled = 1
  /\ Fresh

\* Composition queries: well-formed text of every shape with every
\* attribute sequence and cursor, and every way the text fetch can fail.
InitCompose ==
  /\ Constructed
  /\ cand = CandNone
  /\ \/ /\ \E t \in SeqsUpTo(Units, MaxLen) :
             /\ WellFormed16(t)
             /\ \/ \E x \in SeqsUpTo(AttrVals, MaxAttr) :
                     comp = CompOf(Delivers(WideBytes(t)), Delivers(x), Fails(IMM_ERROR_NODATA))
                \/ comp = CompOf(Delivers(WideBytes(t)), Fails(IMM_ERROR_GENERAL),
                                 Fails(IMM_ERROR_NODATA))
        /\ cursorPos \in {IMM_ERROR_NODATA} \cup (0..MaxLen)
     \/ /\ \E t \in SeqsUpTo(Units, FetchLen) :
             \E s \in FetchOracles({WideBytes(t)}) :
               \E a \in {Fails(IMM_ERROR_GENERAL), Delivers(<< >>),
                         Delivers(<<ATTR_TARGET_CONVERTED>>)} :
                 comp = CompOf(s, a, Fails(IMM_ERROR_NODATA))
        /\ cursorPos \in {IMM_ERROR_GENERAL, 1}
NextCompose == GetComposingTextAndCursor
SpecCompose == InitCompose /\ [][NextCompose]_vars

\* The two-phase query on its own, one mode at a time answering in every way.
InitData ==
  /\ Constructed
  /\ cand = CandNone
  /\ cursorPos = IMM_ERROR_NODATA
  /\ \E m \in Modes, t \in SeqsUpTo(Units, FetchLen) :
       \E o \in FetchOracles({WideBytes(t)}) :
         comp = [k \in Modes |-> IF k = m THEN o ELSE Fails(IMM_ERROR_NODATA)]
NextData == (\E m \in Modes : GetCompositionData(m)) \/ GetComposedText
SpecData == InitData /\ [][NextData]_vars

\* The candidate query over sound and unsound records.
\* Records as an IME may hand them over, sound or not: any count, offset
\* slots that point at any unit of the string area or just behind it; a
\* fill that reports failure; a record cut short of its count field.
InitCand ==
  /\ Constructed
  /\ comp = [k \in Modes |-> Fails(IMM_ERROR_NODATA)]
  /\ cursorPos = IMM_ERROR_NODATA
  /\ \/ cand = CandNone
     \/ \E n \in 0..MaxCand, a \in SeqsUpTo(CandUnits, MaxArea), c \in 0..(MaxCand + 1) :
          \E o \in [1..n -> {OFFSET_OF_dwOffset + 4 * n + 2 * k : k \in 0..Len(a)}] :
            cand = CandOf(Layout(c, o, a), OFFSET_OF_dwOffset + 4 * n + 2 * Len(a))
     \/ cand = CandOf(Layout(1, <<OFFSET_OF_dwOffset + 4>>, <<19968, 0>>), 0)
     \/ \E k \in {4, OFFSET_OF_dwCount} : cand = CandOf(SubSeq(Layout(0, << >>, << >>), 1, k), k)
NextCand == GetCandidateList
SpecCand == InitCand /\ [][NextCand]_vars

\* The life of one ImeContext: acquired, used in any order, dropped.
Init ==
  /\ ctx = "none" /\ hwnd = 0 /\ himc = 0
  /\ Fresh
  /\ imcOf \in {[h \in Hwnds |-> 7 * h], [h \in Hwnds |-> 0]}
  /\ immEnabled \in {0, 1}
  /\ \/ comp = [k \in Modes |-> Fails(IMM_ERROR_NODATA)] /\ cursorPos = IMM_ERROR_NODATA
     \/ comp = [k \in Modes |-> Delivers(<< >>)] /\ cursorPos = 0
     \/ /\ comp = CompOf(Delivers(WideBytes(<<12354>>)), Delivers(<<ATTR_TARGET_CONVERTED>>),
                         Delivers(WideBytes(<<97>>)))
        /\ cursorPos = 1
  /\ cand \in {CandNone,
               CandOf(Layout(1, <<OFFSET_OF_dwOffset + 4>>, <<19968, 0>>), 32),
               CandOf(Layout(2, <<OFFSET_OF_dwOffset + 4>>, <<19968, 0>>), 32)}
Next ==
  \/ \E h \in Hwnds : Current(h)
  \/ GetComposingTextAndCursor
  \/ GetComposedText
  \/ GetCandidateList
  \/ \E spot \in Spots, scale_factor \in Scales : SetImePosition(spot, scale_factor)
  \/ \E h \in Hwnds, allowed \in BOOLEAN : SetImeAllowed(h, allowed)
  \/ Drop
Spec == Init /\ [][Next]_vars
\* ------------------------------------------------------------------ claims
\* What the specification's words say of the platform's answers, stated
\* without the operators that model the code.
IsOp(name) == op[1] = name
ImeCalls(cs) == SelectSeq(cs, LAMBDA c : c[1] # "GetSystemMetrics")

\* The bytes a two-phase query hands over, and whether it hands over any.
QueryFails(o) == o.probe < 0 \/ (o.probe > 0 /\ o.fill < 0)
Delivered(o) == IF o.probe = 0 THEN << >> ELSE SubSeq(o.data, 1, o.fill)
DeliveredWide(o) ==
  [i \in 1..(Len(Delivered(o)) \div 2) |-> Delivered(o)[2 * i - 1] + 256 * Delivered(o)[2 * i]]
StringFails(o) ==
  \/ QueryFails(o)
  \/ Len(Delivered(o)) % 2 = 1
  \/ ~WellFormed16(DeliveredWide(o))

\* char::encode_utf16 over a text.
RECURSIVE EncodeUtf16(_)
EncodeUtf16(text) ==
  IF text = << >> THEN << >>
  ELSE (IF Head(text) < 65536 THEN <<Head(text)>>
        ELSE <<55296 + ((Head(text) - 65536) \div 1024), 56320 + ((Head(text) - 65536) % 1024)>>)
       \o EncodeUtf16(Tail(text))

\* The attribute sequence the walk sees: empty when its fetch failed.
AttrSeq == IF QueryFails(comp[GCS_COMPATTR]) THEN << >> ELSE Delivered(comp[GCS_COMPATTR])
Targeted(i) == AttrSeq[i] \in {ATTR_TARGET_CONVERTED, ATTR_TARGET_NOTCONVERTED}
NoTargetedUnit == \A i \in 1..Len(AttrSeq) : ~Targeted(i)
\* UTF-8 byte offset of the boundary behind the first k UTF-16 units.
Utf8OffsetOfUnit(w, k) == str_len(from_utf16_lossy(SubSeq(w, 1, k)))
CharBoundaries(text) == {str_len(SubSeq(text, 1, k)) : k \in 0..Len(text)}
RetText == ret[1][1]
RetStart == ret[1][2]
RetEnd == ret[1][3]

\* C1: the session handle of a context is released exactly once, with the
\* context's own hwnd and himc: never before the context goes out of scope,
\* never twice, and never zero times once it has gone out of scope.
C1_ReleasedExactlyOnce ==
  /\ Len(released) <= 1
  /\ ctx \in {"none", "live", "aborted"} => released = << >>
  /\ ctx = "dropped" => released = <<<<hwnd, himc>>>> /\ himc = imcOf[hwnd]
C1_Witness == ctx = "dropped" /\ released = <<<<2, 14>>>>

\* C2 as stated: a GCS_RESULTSTR size probe of 0 makes get_composed_text
\* return None.
C2_Original ==
  (IsOp("get_composed_text") /\ comp[GCS_RESULTSTR].probe = 0) => ret = None
\* C2 amended: a GCS_RESULTSTR size probe of 0 makes get_composed_text
\* return a present empty string, after the probe call alone.
C2_EmptyStringOnZeroProbe ==
  (IsOp("get_composed_text") /\ comp[GCS_RESULTSTR].probe = 0)
    => ret = Some(<< >>) /\ calls = <<CompCall(GCS_RESULTSTR, 0)>>
C2_Witness == IsOp("get_composed_text") /\ comp[GCS_RESULTSTR].probe = 0

\* C5: with no targeted unit in the attribute sequence (empty or failed
\* fetch included) and a reported cursor N >= 0, start = end = the summed
\* UTF-8 lengths of the first N scalar values of the text; with a negative
\* cursor both are None.
C5_CursorFallback ==
  (IsOp("get_composing_text_and_cursor") /\ ret # None /\ NoTargetedUnit)
    => IF cursorPos >= 0
       THEN /\ RetStart = Some(str_len(SubSeq(RetText, 1, Min(cursorPos, Len(RetText)))))
            /\ RetEnd = RetStart
       ELSE RetStart = None /\ RetEnd = None
C5_Witness ==
  /\ IsOp("get_composing_text_and_cursor") /\ ret # None /\ NoTargetedUnit
  /\ Len(AttrSeq) > 1 /\ cursorPos = 2 /\ RetStart = Some(4) /\ Len(RetText) = 3

\* C6: get_composing_text_and_cursor returns None exactly when the
\* GCS_COMPSTR fetch yields no data; a failed GCS_COMPATTR fetch never does,
\* and the text returned is the fetched string, unit for unit.
C6_NoneIffNoText ==
  IsOp("get_composing_text_and_cursor")
    => /\ ret = None <=> StringFails(comp[GCS_COMPSTR])
       /\ ret # None => EncodeUtf16(RetText) = DeliveredWide(comp[GCS_COMPSTR])
C6_Witness ==
  /\ IsOp("get_composing_text_and_cursor") /\ QueryFails(comp[GCS_COMPATTR])
  /\ ret # None /\ RetText = <<128512>>

\* C7: without IME support (SM_IMMENABLED = 0) set_ime_position and
\* set_ime_allowed make no IME call and return normally; with IME support
\* set_ime_allowed makes exactly one ImmAssociateContextEx call, with
\* IACE_DEFAULT if allowed and IACE_CHILDREN otherwise.
C7_NoImeNoCalls ==
  /\ (IsOp("set_ime_position") \/ IsOp("set_ime_allowed"))
       => ret = None /\ ctx # "aborted" /\ (immEnabled = 0 => ImeCalls(calls) = << >>)
  /\ (IsOp("set_ime_allowed") /\ immEnabled # 0)
       => ImeCalls(calls) = <<<<"ImmAssociateContextEx", op[2], 0,
                                IF op[3] THEN IACE_DEFAULT ELSE IACE_CHILDREN>>>>
C7_Witness ==
  /\ IsOp("set_ime_position") /\ immEnabled = 0 /\ ctx = "live"
  /\ op[2] = [kind |-> "Logical", x |-> 1, y |-> 1] /\ op[3] = 2

\* C9: get_composition_data: a probe of 0 gives an empty buffer and no fill
\* call; a negative probe gives None and no fill call; a positive probe p is
\* followed by exactly one fill call with p bytes, whose negative result
\* gives None and whose other results give a buffer of that length, never
\* more than p.
C9_TwoPhaseOutcomes ==
  IsOp("get_composition_data")
    => LET m == op[2]
           p == comp[m].probe
           f == comp[m].fill
       IN /\ p = 0 => ret = Some(<< >>) /\ calls = <<CompCall(m, 0)>>
          /\ p < 0 => ret = None /\ calls = <<CompCall(m, 0)>>
          /\ p > 0 => /\ calls = <<CompCall(m, 0), CompCall(m, p)>>
                      /\ f < 0 => ret = None
                      /\ f >= 0 => ret # None /\ Len(ret[1]) = f /\ Len(ret[1]) <= p
C9_Witness ==
  /\ IsOp("get_composition_data") /\ comp[op[2]].probe = 4 /\ comp[op[2]].fill = 3
  /\ ret # None /\ Len(ret[1]) = 3

\* C10: every result of get_composing_text_and_cursor has start None exactly
\* when end is None, and otherwise 0 <= start <= end <= byte length of the
\* text with both offsets on UTF-8 character boundaries of the text.
C10_RangeWellFormed ==
  (IsOp("get_composing_text_and_cursor") /\ ret # None)
    => /\ RetStart = None <=> RetEnd = None
       /\ RetStart # None =>
            /\ 0 <= RetStart[1] /\ RetStart[1] <= RetEnd[1] /\ RetEnd[1] <= str_len(RetText)
            /\ RetStart[1] \in CharBoundaries(RetText)
            /\ RetEnd[1] \in CharBoundaries(RetText)
C10_Witness ==
  /\ IsOp("get_composing_text_and_cursor") /\ ret # None
  /\ Len(AttrSeq) = 3 /\ Len(RetText) = 2 /\ ~Targeted(1) /\ Targeted(2) /\ ~Targeted(3)
  /\ RetStart # None /\ RetStart[1] > 0 /\ RetEnd[1] > RetStart[1]
\* The targeted units are exactly i..j, and the run splits no surrogate pair.
SingleRun(w, i, j) ==
  /\ i <= j
  /\ \A k \in 1..Len(w) : Targeted(k) <=> (i <= k /\ k <= j)
  /\ ~IsLow(w[i]) /\ ~IsHigh(w[j])

\* C3: for a text and an attribute sequence with one attribute per UTF-16
\* unit of the text in which the targeted units form one contiguous run,
\* (start, end) are the UTF-8 byte offsets that bracket that run; a run that
\* reaches the end of the attributes ends at the byte length of the text.
C3_RunBracketed ==
  (/\ IsOp("get_composing_text_and_cursor") /\ ret # None
   /\ ~QueryFails(comp[GCS_COMPATTR])
   /\ Len(AttrSeq) = Len(DeliveredWide(comp[GCS_COMPSTR])))
    => LET w == DeliveredWide(comp[GCS_COMPSTR])
       IN \A i, j \in 1..Len(w) :
            SingleRun(w, i, j)
              => /\ RetStart = Some(Utf8OffsetOfUnit(w, i - 1))
                 /\ RetEnd = Some(Utf8OffsetOfUnit(w, j))
                 /\ j = Len(w) => RetEnd = Some(str_len(RetText))

\* The candidate record as the specification reads it.
BufU16(a) == cand.buf[a + 1] + 256 * cand.buf[a + 2]
TerminatedInside(off) ==
  \E n \in 0..((cand.size - off) \div 2 - 1) : BufU16(off + 2 * n) = 0
\* The count field, the count offset slots and every string up to its
\* terminating null lie inside the cand.size bytes allocated.
SoundRecord ==
  /\ OFFSET_OF_dwCount + 4 <= cand.size
  /\ ReadU32(OFFSET_OF_dwCount) <= (cand.size - OFFSET_OF_dwOffset) \div 4
  /\ \A i \in 0..(ReadU32(OFFSET_OF_dwCount) - 1) :
       TerminatedInside(ReadU32(OFFSET_OF_dwOffset + 4 * i))
StringAt(off) ==
  LET n == CHOOSE n \in 0..((cand.size - off) \div 2 - 1) :
             BufU16(off + 2 * n) = 0 /\ \A j \in 0..(n - 1) : BufU16(off + 2 * j) # 0
  IN [j \in 1..n |-> BufU16(off + 2 * (j - 1))]
Filled == cand.size # 0 /\ cand.ret # 0

\* C4: get_candidate_list reads nothing outside the allocated buffer, and a
\* record whose count, offsets or strings do not lie inside it yields None.
C4_NoOutOfRangeRead ==
  IsOp("get_candidate_list")
    => /\ reads \subseteq 0..(cand.size - 1)
       /\ ctx # "aborted"
       /\ (Filled /\ ~SoundRecord) => ret = None

\* C8: for an in-bounds record get_candidate_list returns exactly count
\* strings, the i-th decoded from the null-terminated string at the i-th
\* offset, in order; a size probe of 0 or a fill result of 0 returns None.
C8_CandidatesDecoded ==
  IsOp("get_candidate_list")
    => /\ ~Filled => ret = None
       /\ (Filled /\ SoundRecord)
            => /\ ret # None /\ ctx = "live"
               /\ Len(ret[1]) = ReadU32(OFFSET_OF_dwCount)
               /\ \A i \in 1..Len(ret[1]) :
                    ret[1][i] = from_utf16_lossy(StringAt(ReadU32(OFFSET_OF_dwOffset + 4 * (i - 1))))
C8_Witness ==
  /\ IsOp("get_candidate_list") /\ Filled /\ SoundRecord
  /\ ret = Some(<<<<19968, 65533>>, <<65533>>>>)
====
